---------------------------- MODULE Spec2Model ----------------------------
(***************************************************************************)
(* freshrss_ai_summarizer.py as a state machine.                           *)
(*                                                                         *)
(* Two threads: the main flow (choose_language, choose_model,              *)
(* display_analysis) and the daemon thread running monitor_ram_usage.      *)
(*                                                                         *)
(* A text is a sequence of tokens.  A token is a one-character string, or  *)
(* a longer string standing for a fixed fragment of a literal of the       *)
(* source that holds no dollar sign, no digit and no leading or trailing   *)
(* whitespace that any operation of the program looks at.                  *)
(***************************************************************************)
EXTENDS Integers, Sequences, FiniteSets, TLC

VARIABLES
    pc,                 \* position of the main thread
    selected_language,  \* global, line 37
    selected_model,     \* global, line 38
    selected_analyzer,  \* global, line 39
    terminate_flag,     \* global, line 34
    response,           \* the feed service's answer to the GET of line 156
    now,                \* the clock read at line 165
    articles,           \* display_analysis: articles
    idx,                \* position of the for loop of line 280 in articles
    article_content,    \* analyze_with_*: article_content
    analysis,           \* display_analysis: analysis
    articles_analysis,  \* display_analysis: articles_analysis
    summary,            \* display_analysis: summary
    requests,           \* the calls made to the LLM backends, in order
    log,                \* the steps the main thread completed and what it
                        \* read or displayed at each, in order
    wpc,                \* position of the watchdog thread
    ram,                \* the watchdog's last reading of virtual_memory().percent
    proc,               \* "running" or "exited"
    exit_code,          \* the process's exit status once exited
    traceback           \* the unhandled exception that ended the main thread

mainVars == <<pc, selected_language, selected_model, selected_analyzer,
              response, now, articles, idx, article_content, analysis,
              articles_analysis, summary, requests, log, traceback>>
watchVars == <<wpc, ram, terminate_flag>>
procVars == <<proc, exit_code>>
vars == <<mainVars, watchVars, procVars>>

-----------------------------------------------------------------------------
(* Bounds of the model *)

\* Longest feed the service answers with.
MaxItems == 2
\* Longest LLM answer drawn in the exhaustive per-article specification.
MaxRespLen == 3

-----------------------------------------------------------------------------
(* Texts *)

None == [isNone |-> TRUE, text |-> <<>>]
Some(t) == [isNone |-> FALSE, text |-> t]

IsSpace(c) == c \in {" ", "\t", "\n"}
IsDigit(c) == c \in {"0", "1", "2", "3", "4", "5", "6", "7", "8", "9"}

RECURSIVE lstrip(_)
lstrip(s) == IF s # <<>> /\ IsSpace(Head(s)) THEN lstrip(Tail(s)) ELSE s

RECURSIVE rstrip(_)
rstrip(s) ==
    IF s # <<>> /\ IsSpace(s[Len(s)]) THEN rstrip(SubSeq(s, 1, Len(s) - 1)) ELSE s

\* str.strip()
strip(s) == rstrip(lstrip(s))

\* sep.join(parts)
RECURSIVE join(_, _)
join(sep, parts) ==
    IF parts = <<>> THEN <<>>
    ELSE IF Len(parts) = 1 THEN parts[1]
    ELSE parts[1] \o sep \o join(sep, Tail(parts))

\* Python's truth value of a str-or-None
Truthy(c) == ~c.isNone /\ c.text # <<>>


-----------------------------------------------------------------------------
(* re.sub of lines 204 and 229: every match of \$\s?\d[\d,\.]* is put      *)
(* between two backticks                                                   *)

\* the token of the backtick character
Backtick == "<backtick>"

\* [\d,\.]
IsAmountChar(c) == IsDigit(c) \/ c \in {",", "."}

\* [\d,\.]* is greedy: the last position of the run that starts after j
RECURSIVE run_end(_, _)
run_end(s, j) ==
    IF j + 1 <= Len(s) /\ IsAmountChar(s[j + 1]) THEN run_end(s, j + 1) ELSE j

\* \$\s?\d without the optional whitespace: a plausible slip in the pattern
match_end_no_space(s, i) ==
    IF s[i] = "$" /\ i + 1 <= Len(s) /\ IsDigit(s[i + 1])
    THEN run_end(s, i + 1)
    ELSE 0

\* The last position of the match of \$\s?\d[\d,\.]* that starts at i; 0 when
\* the pattern does not match at i.
match_end(s, i) ==
    IF s[i] # "$" THEN 0
    ELSE IF i + 1 <= Len(s) /\ IsDigit(s[i + 1]) THEN run_end(s, i + 1)
    ELSE IF i + 2 <= Len(s) /\ IsSpace(s[i + 1]) /\ IsDigit(s[i + 2])
         THEN run_end(s, i + 2)
    ELSE 0

\* re.sub scans left to right and replaces every non-overlapping match by the
\* match between two backticks.
RECURSIVE sub_from(_, _)
sub_from(s, i) ==
    IF i > Len(s) THEN <<>>
    ELSE LET e == match_end(s, i)
         IN  IF e = 0
             THEN <<s[i]>> \o sub_from(s, i + 1)
             ELSE <<Backtick>> \o SubSeq(s, i, e) \o <<Backtick>>
                  \o sub_from(s, e + 1)

re_sub(s) == sub_from(s, 1)

-----------------------------------------------------------------------------
(* Literals of the source *)

RAM_THRESHOLD == 80

\* get_article_prompt()
get_article_prompt ==
    <<"You are a financial journalist and market analyst. (...) **Provide the response in the following language: ">>
    \o selected_language \o <<"**">>

\* get_summary_prompt()
get_summary_prompt ==
    <<"You are a financial journalist tasked with summarizing multiple news analyses. (...) **Provide the response in the following language: ">>
    \o selected_language \o <<"**">>

\* f"**Skipping article:** *{article['title']}* (Could not extract content)."
skip_placeholder(title) ==
    <<"**Skipping article:** *">> \o title \o <<"* (Could not extract content).">>

\* f"**Title:** {article['title']}\n\n**Content:**\n{article_content}"
title_and_content(title, content) ==
    <<"**Title:** ">> \o title \o <<"\n", "\n", "**Content:**", "\n">> \o content

\* f"**Error:** Failed to connect to Ollama API: {str(e)}"
ollama_error(e) == <<"**Error:** Failed to connect to Ollama API: ">> \o e

no_response == <<"**Error: No response from Ollama**">>
no_summary_response == <<"**Error: No summary response from Ollama**">>
no_articles_message == <<"No articles published today.">>
no_model_message == <<"Error: No model selected for analysis!">>
unauthorized_message == <<"Unauthorized: Check FreshRSS Auth token in .env.">>
failed_to_fetch(body) == <<"Failed to fetch FreshRSS articles: ">> \o body

-----------------------------------------------------------------------------
(* Calendar dates: datetime.fromtimestamp(t).date() and datetime.now().date() *)

SecondsPerDay == 86400
\* the local timezone's offset from UTC, in seconds
UtcOffset == 3600

\* the local calendar date of an epoch timestamp, as a day number
date(t) == (t + UtcOffset) \div SecondsPerDay

\* a 24-hour rolling window instead of the calendar date
is_today_rolling(t, clock) == t <= clock /\ clock - t < SecondsPerDay

\* article_date == today, lines 165-169
is_today(t, clock) == date(t) = date(clock)

-----------------------------------------------------------------------------
(* What the environment may answer *)

\* 00:00:00 local time of the day of the run
Midnight == 20000 * SecondsPerDay - UtcOffset

Clocks == {Midnight, Midnight + SecondsPerDay - 1}

Entry(title, href, published) ==
    [title |-> title, alternate |-> <<[href |-> href]>>, published |-> published]

FeedEntries ==
    { Entry(<<"a">>, "u1", Midnight - 1),
      Entry(<<"$", "5">>, "u2", Midnight),
      Entry(<<"b">>, "u3", Midnight + SecondsPerDay - 1),
      Entry(<<"c">>, "u4", Midnight + SecondsPerDay) }

SeqsUpTo(S, n) == UNION {[1..k -> S] : k \in 0..n}

Feeds == SeqsUpTo(FeedEntries, MaxItems)

Statuses == {200, 204, 401, 500}
ErrorBodies == {<<>>, <<"E">>}

LanguageLines == {<<>>, <<" ", "e", "n", " ">>}
ChoiceLines == {<<"1">>, <<"2", " ">>, <<"3">>, <<>>}
ModelLines == {<<"m", " ">>}

\* article.text, or None when download or parse raised
Contents == {None, Some(<<>>), Some(<<"x">>)}

Replies == {<<"o", "k">>, <<"$", " ", "5">>}
ReplyAlphabet == {"$", " ", "5", ",", "a"}
AllReplies == SeqsUpTo(ReplyAlphabet, MaxRespLen)
Summaries == {<<"$", "9">>}
Readings == {RAM_THRESHOLD - 1, RAM_THRESHOLD}

-----------------------------------------------------------------------------
(* Control flow of the main thread *)

\* the block under if __name__ == "__main__" with two calls swapped
main_block_swapped == <<"choose_language", "display_analysis", "choose_model">>

\* the calls of the block under if __name__ == "__main__", lines 290-292
main_block == <<"choose_language", "choose_model", "display_analysis">>

Event(ev, i, text) == [ev |-> ev, i |-> i, text |-> text]

\* fn returns to the main block: the next call starts, or the interpreter
\* ends the process with status 0 (the watchdog is a daemon thread)
Return(fn) ==
    LET k == CHOOSE j \in 1..Len(main_block) : main_block[j] = fn
    IN  IF k < Len(main_block)
        THEN pc' = main_block[k + 1] /\ UNCHANGED procVars
        ELSE pc' = "done" /\ proc' = "exited" /\ exit_code' = 0

\* an exception nobody catches ends the main thread: the interpreter prints
\* the traceback and ends the process with status 1
Raise(fn, message) ==
    /\ pc' = "raised"
    /\ proc' = "exited"
    /\ exit_code' = 1
    /\ traceback' = [raised_in |-> fn, message |-> message]

Init ==
    /\ pc = main_block[1]
    /\ selected_language = <<"E", "n", "g", "l", "i", "s", "h">>
    /\ selected_model = None
    /\ selected_analyzer = "None"
    /\ terminate_flag = FALSE
    /\ response = [status_code |-> 0, text |-> <<>>, items |-> <<>>,
                   parses |-> FALSE]
    /\ now = 0
    /\ articles = <<>>
    /\ idx = 0
    /\ article_content = None
    /\ analysis = <<>>
    /\ articles_analysis = <<>>
    /\ summary = <<>>
    /\ requests = <<>>
    /\ log = <<>>
    /\ wpc = "polling"
    /\ ram = 0
    /\ proc = "running"
    /\ exit_code = -1
    /\ traceback = [raised_in |-> "", message |-> <<>>]

-----------------------------------------------------------------------------
(* The prompts *)

choose_language ==
    /\ proc = "running"
    /\ pc = "choose_language"
    /\ \E line \in LanguageLines :
          /\ selected_language' = strip(line)
          /\ log' = Append(log, Event("choose_language", 0, line))
    /\ Return("choose_language")
    /\ UNCHANGED <<selected_model, selected_analyzer, response, now, articles,
                   idx, article_content, analysis, articles_analysis, summary,
                   requests, traceback, watchVars>>

\* the else branch taken for every choice but "1": a plausible slip
choice_branch_else(choice) ==
    IF choice = <<"1">> THEN "analyze_with_openai" ELSE "analyze_with_ollama"

\* the branch of lines 114-142 a choice takes: the analyzer it selects, or
\* "None" for the else branch that prints and loops
choice_branch(choice) ==
    IF choice = <<"1">> THEN "analyze_with_openai"
    ELSE IF choice = <<"2">> THEN "analyze_with_ollama"
    ELSE "None"

\* one pass of the while loop of choose_model up to the model prompt
choose_model ==
    /\ proc = "running"
    /\ pc = "choose_model"
    /\ \E line \in ChoiceLines :
          LET branch == choice_branch(strip(line))
          IN  IF branch = "None"
              THEN UNCHANGED <<pc, selected_analyzer, log>>
              ELSE /\ selected_analyzer' = branch
                   /\ pc' = "choose_model_name"
                   /\ log' = Append(log, Event("choose_backend", 0, line))
    /\ UNCHANGED <<selected_language, selected_model, response, now, articles,
                   idx, article_content, analysis, articles_analysis, summary,
                   requests, traceback, watchVars, procVars>>

\* lines 124-125 and 138-139
choose_model_name ==
    /\ proc = "running"
    /\ pc = "choose_model_name"
    /\ \E line \in ModelLines :
          /\ selected_model' = Some(strip(line))
          /\ log' = Append(log, Event("choose_model", 0, line))
    /\ Return("choose_model")
    /\ UNCHANGED <<selected_language, selected_analyzer, response, now,
                   articles, idx, article_content, analysis, articles_analysis,
                   summary, requests, traceback, watchVars>>

-----------------------------------------------------------------------------
(* get_articles_published_today *)

\* parses: response.json() returns and every item has the keys read at lines
\* 168-173
FeedResponses ==
    {[status_code |-> 200, text |-> <<"json">>, items |-> feed,
      parses |-> TRUE] : feed \in Feeds}
    \cup {[status_code |-> 200, text |-> <<"<html>">>, items |-> <<>>,
           parses |-> FALSE]}
    \cup {[status_code |-> st, text |-> body, items |-> <<>>,
           parses |-> FALSE] : st \in Statuses \ {200}, body \in ErrorBodies}

\* the 401 check left out: a plausible slip
status_error_unchecked_401(resp) ==
    IF resp.status_code # 200 THEN Some(failed_to_fetch(resp.text)) ELSE None

\* lines 158-162: the message of the exception raised for a response, if any
status_error(resp) ==
    IF resp.status_code = 401 THEN Some(unauthorized_message)
    ELSE IF resp.status_code # 200 THEN Some(failed_to_fetch(resp.text))
    ELSE None

\* the loop of lines 167-174
RECURSIVE todays_articles(_, _)
todays_articles(items, clock) ==
    IF items = <<>> THEN <<>>
    ELSE LET entry == Head(items)
             rest == todays_articles(Tail(items), clock)
         IN  IF is_today(entry.published, clock)
             THEN <<[title |-> entry.title,
                     url |-> entry.alternate[1].href,
                     timestamp |-> entry.published]>> \o rest
             ELSE rest

\* line 270: the call of get_articles_published_today by display_analysis
get_articles_published_today ==
    /\ proc = "running"
    /\ pc = "display_analysis"
    /\ \E resp \in FeedResponses, clock \in Clocks :
          LET err == status_error(resp)
          IN  /\ response' = resp
              /\ log' = Append(log, Event("fetch", 0, <<>>))
              /\ IF ~err.isNone
                 THEN /\ Raise("get_articles_published_today", err.text)
                      /\ UNCHANGED <<now, articles>>
                 ELSE IF ~resp.parses
                 THEN /\ Raise("get_articles_published_today",
                               <<"ValueError or KeyError">>)
                      /\ now' = clock
                      /\ UNCHANGED articles
                 ELSE /\ now' = clock
                      /\ articles' = todays_articles(resp.items, clock)
                      /\ pc' = "check"
                      /\ UNCHANGED <<procVars, traceback>>
    /\ UNCHANGED <<selected_language, selected_model, selected_analyzer, idx,
                   article_content, analysis, articles_analysis, summary,
                   requests, watchVars>>

-----------------------------------------------------------------------------
(* display_analysis *)

\* the check of line 271 left out: a plausible slip
no_articles_unchecked(found) == FALSE

\* not articles, line 271
no_articles(found) == found = <<>>

\* lines 271-279
display_analysis_check ==
    /\ proc = "running"
    /\ pc = "check"
    /\ IF no_articles(articles)
       THEN /\ log' = Append(log, Event("print", 0, no_articles_message))
            /\ Return("display_analysis")
            /\ UNCHANGED <<idx, articles_analysis>>
       ELSE IF selected_analyzer = "None"
       THEN /\ log' = Append(log, Event("print", 0, no_model_message))
            /\ Return("display_analysis")
            /\ UNCHANGED <<idx, articles_analysis>>
       ELSE /\ articles_analysis' = <<>>
            /\ idx' = 1
            /\ pc' = IF articles = <<>> THEN "summarize" ELSE "title"
            /\ UNCHANGED <<log, procVars>>
    /\ UNCHANGED <<selected_language, selected_model, selected_analyzer,
                   response, now, articles, article_content, analysis, summary,
                   requests, traceback, watchVars>>

\* line 281
render_title ==
    /\ proc = "running"
    /\ pc = "title"
    /\ log' = Append(log, Event("render_title", idx, articles[idx].title))
    /\ pc' = "extract"
    /\ UNCHANGED <<selected_language, selected_model, selected_analyzer,
                   response, now, articles, idx, article_content, analysis,
                   articles_analysis, summary, requests, traceback, watchVars,
                   procVars>>

\* lines 178-186, called at lines 190 and 208
get_clean_article_content ==
    /\ proc = "running"
    /\ pc = "extract"
    /\ \E content \in Contents :
          /\ article_content' = content
          /\ log' = Append(log, Event("extract", idx, content))
    /\ pc' = "analyze"
    /\ UNCHANGED <<selected_language, selected_model, selected_analyzer,
                   response, now, articles, idx, analysis, articles_analysis,
                   summary, requests, traceback, watchVars, procVars>>

-----------------------------------------------------------------------------
(* The analysis backends *)

Request(to, fn, i, system, user, prompt) ==
    [to |-> to, fn |-> fn, article |-> i, model |-> selected_model,
     system |-> system, user |-> user, prompt |-> prompt]

\* is not None instead of the truth value: a plausible slip
is_not_none(c) == ~c.isNone

\* the truth value of article_content, lines 191 and 209
has_content(c) == Truthy(c)

\* the analysis is ready: back in display_analysis at line 283
Analyzed(text) ==
    /\ analysis' = text
    /\ log' = Append(log, Event("analyze", idx, text))
    /\ pc' = "render"
    /\ UNCHANGED <<procVars, traceback>>

\* lines 191-204; the replies the service may give are drawn from R
analyze_with_openai(R) ==
    /\ proc = "running"
    /\ pc = "analyze"
    /\ selected_analyzer = "analyze_with_openai"
    /\ LET article == articles[idx]
           call == Request("openai", "analyze_with_openai", idx,
                           get_article_prompt,
                           title_and_content(article.title, article_content.text),
                           <<>>)
       IN  \/ /\ ~has_content(article_content)
              /\ Analyzed(skip_placeholder(article.title))
              /\ UNCHANGED requests
           \/ /\ has_content(article_content)
              /\ requests' = Append(requests, call)
              /\ \E reply \in R : Analyzed(re_sub(reply))
           \/ /\ has_content(article_content)
              /\ requests' = Append(requests, call)
              /\ Raise("analyze_with_openai", <<"openai.OpenAIError">>)
              /\ UNCHANGED <<analysis, log>>
    /\ UNCHANGED <<selected_language, selected_model, selected_analyzer,
                   response, now, articles, idx, article_content,
                   articles_analysis, summary, watchVars>>

\* lines 209-232
analyze_with_ollama(R) ==
    /\ proc = "running"
    /\ pc = "analyze"
    /\ selected_analyzer = "analyze_with_ollama"
    /\ LET article == articles[idx]
           call == Request("ollama", "analyze_with_ollama", idx, <<>>, <<>>,
                           get_article_prompt \o <<"\n", "\n">>
                           \o title_and_content(article.title,
                                                article_content.text))
       IN  \/ /\ ~has_content(article_content)
              /\ Analyzed(skip_placeholder(article.title))
              /\ UNCHANGED requests
           \/ /\ has_content(article_content)
              /\ requests' = Append(requests, call)
              /\ \E reply \in R : Analyzed(re_sub(reply))
           \/ /\ has_content(article_content)
              /\ requests' = Append(requests, call)
              /\ Analyzed(re_sub(no_response))
           \/ /\ has_content(article_content)
              /\ requests' = Append(requests, call)
              /\ Analyzed(ollama_error(<<"requests.RequestException">>))
    /\ UNCHANGED <<selected_language, selected_model, selected_analyzer,
                   response, now, articles, idx, article_content,
                   articles_analysis, summary, watchVars>>

\* line 283
render_analysis ==
    /\ proc = "running"
    /\ pc = "render"
    /\ log' = Append(log, Event("render", idx, analysis))
    /\ pc' = "collect"
    /\ UNCHANGED <<selected_language, selected_model, selected_analyzer,
                   response, now, articles, idx, article_content, analysis,
                   articles_analysis, summary, requests, traceback, watchVars,
                   procVars>>

\* line 284 and the step of the for loop of line 280
collect ==
    /\ proc = "running"
    /\ pc = "collect"
    /\ articles_analysis' = Append(articles_analysis, analysis)
    /\ log' = Append(log, Event("collect", idx, analysis))
    /\ IF idx < Len(articles)
       THEN idx' = idx + 1 /\ pc' = "title"
       ELSE idx' = idx /\ pc' = "summarize"
    /\ UNCHANGED <<selected_language, selected_model, selected_analyzer,
                   response, now, articles, article_content, analysis, summary,
                   requests, traceback, watchVars, procVars>>

\* parts concatenated with nothing between them: a plausible slip
join_without_separator(parts) == join(<<>>, parts)

\* "\n\n".join(articles_analysis), line 236
user_content(parts) == join(<<"\n", "\n">>, parts)

\* the summary is ready: back in display_analysis at line 287
Summarized(text) ==
    /\ summary' = text
    /\ log' = Append(log, Event("summarize", 0, text))
    /\ pc' = "render_summary"
    /\ UNCHANGED <<procVars, traceback>>

\* lines 234-265, called at line 286
generate_consolidated_summary ==
    /\ proc = "running"
    /\ pc = "summarize"
    /\ LET content == user_content(articles_analysis)
           chat == Request("openai", "generate_consolidated_summary", 0,
                           get_summary_prompt, content, <<>>)
           post == Request("ollama", "generate_consolidated_summary", 0,
                           <<>>, <<>>,
                           get_summary_prompt \o <<"\n", "\n">> \o content)
       IN  \/ /\ selected_analyzer = "analyze_with_openai"
              /\ requests' = Append(requests, chat)
              /\ \E reply \in Summaries : Summarized(reply)
           \/ /\ selected_analyzer = "analyze_with_openai"
              /\ requests' = Append(requests, chat)
              /\ Raise("generate_consolidated_summary", <<"openai.OpenAIError">>)
              /\ UNCHANGED <<summary, log>>
           \/ /\ selected_analyzer # "analyze_with_openai"
              /\ requests' = Append(requests, post)
              /\ \E reply \in Summaries : Summarized(reply)
           \/ /\ selected_analyzer # "analyze_with_openai"
              /\ requests' = Append(requests, post)
              /\ Summarized(no_summary_response)
           \/ /\ selected_analyzer # "analyze_with_openai"
              /\ requests' = Append(requests, post)
              /\ Summarized(ollama_error(<<"requests.RequestException">>))
    /\ UNCHANGED <<selected_language, selected_model, selected_analyzer,
                   response, now, articles, idx, article_content, analysis,
                   articles_analysis, watchVars>>

\* line 287, and the return of display_analysis
render_summary ==
    /\ proc = "running"
    /\ pc = "render_summary"
    /\ log' = Append(log, Event("render_summary", 0, summary))
    /\ Return("display_analysis")
    /\ UNCHANGED <<selected_language, selected_model, selected_analyzer,
                   response, now, articles, idx, article_content, analysis,
                   articles_analysis, summary, requests, traceback, watchVars>>

-----------------------------------------------------------------------------
(* The watchdog thread, lines 84-94 *)

\* sys.exit in place of os._exit: it ends the calling thread alone
sys_exit(code) == UNCHANGED procVars

\* os._exit(code), line 90: the process ends at once, all threads with it
os_exit(code) == proc' = "exited" /\ exit_code' = code

\* psutil.virtual_memory().percent >= RAM_THRESHOLD, line 88
exceeds(percent) == percent >= RAM_THRESHOLD

\* one pass of the loop: lines 87-88, then line 89 or the sleep of line 91
monitor_ram_usage ==
    /\ proc = "running"
    /\ wpc = "polling"
    /\ ~terminate_flag
    /\ \E percent \in Readings :
          /\ ram' = percent
          /\ wpc' = IF exceeds(percent) THEN "terminating" ELSE "polling"
    /\ UNCHANGED <<mainVars, terminate_flag, procVars>>

\* line 90
monitor_ram_usage_exit ==
    /\ proc = "running"
    /\ wpc = "terminating"
    /\ os_exit(1)
    /\ wpc' = "exited"
    /\ UNCHANGED <<mainVars, ram, terminate_flag>>

-----------------------------------------------------------------------------
(* The program *)

Watchdog == monitor_ram_usage \/ monitor_ram_usage_exit

Next ==
    \/ choose_language
    \/ choose_model
    \/ choose_model_name
    \/ get_articles_published_today
    \/ display_analysis_check
    \/ render_title
    \/ get_clean_article_content
    \/ analyze_with_openai(Replies)
    \/ analyze_with_ollama(Replies)
    \/ render_analysis
    \/ collect
    \/ generate_consolidated_summary
    \/ render_summary
    \/ Watchdog

Spec == Init /\ [][Next]_vars

-----------------------------------------------------------------------------
(* One article through its analyzer, under every short reply *)

\* display_analysis at line 280 with one article of today fetched
InitAnalyze ==
    /\ pc = "title"
    /\ selected_language = <<"e", "n">>
    /\ selected_model = Some(<<"m">>)
    /\ selected_analyzer \in {"analyze_with_openai", "analyze_with_ollama"}
    /\ terminate_flag = FALSE
    /\ \E entry \in {e \in FeedEntries : is_today(e.published, Midnight)} :
          /\ response = [status_code |-> 200, text |-> <<"json">>,
                         items |-> <<entry>>, parses |-> TRUE]
          /\ articles = todays_articles(<<entry>>, Midnight)
    /\ now = Midnight
    /\ idx = 1
    /\ article_content = None
    /\ analysis = <<>>
    /\ articles_analysis = <<>>
    /\ summary = <<>>
    /\ requests = <<>>
    /\ log = << Event("choose_language", 0, <<" ", "e", "n", " ">>),
                Event("choose_backend", 0,
                      IF selected_analyzer = "analyze_with_openai"
                      THEN <<"1">> ELSE <<"2", " ">>),
                Event("choose_model", 0, <<"m", " ">>),
                Event("fetch", 0, <<>>) >>
    /\ wpc = "polling"
    /\ ram = 0
    /\ proc = "running"
    /\ exit_code = -1
    /\ traceback = [raised_in |-> "", message |-> <<>>]

NextAnalyze ==
    \/ render_title
    \/ get_clean_article_content
    \/ analyze_with_openai(AllReplies)
    \/ analyze_with_ollama(AllReplies)
    \/ render_analysis
    \/ collect

SpecAnalyze == InitAnalyze /\ [][NextAnalyze]_vars

-----------------------------------------------------------------------------
(* generate_consolidated_summary applied to every short list of analyses *)

AnalysisTexts ==
    { skip_placeholder(<<"a">>), re_sub(<<"$", " ", "5">>), <<"o", "k">> }

\* the call generate_consolidated_summary(articles_analysis)
InitSummarize ==
    /\ pc = "summarize"
    /\ selected_language = <<"e", "n">>
    /\ selected_model = Some(<<"m">>)
    /\ selected_analyzer \in {"analyze_with_openai", "analyze_with_ollama"}
    /\ terminate_flag = FALSE
    /\ response = [status_code |-> 200, text |-> <<"json">>, items |-> <<>>,
                   parses |-> TRUE]
    /\ now = Midnight
    /\ articles = <<>>
    /\ idx = 0
    /\ article_content = None
    /\ analysis = <<>>
    /\ articles_analysis \in SeqsUpTo(AnalysisTexts, MaxItems)
    /\ summary = <<>>
    /\ requests = <<>>
    /\ log = <<>>
    /\ wpc = "polling"
    /\ ram = 0
    /\ proc = "running"
    /\ exit_code = -1
    /\ traceback = [raised_in |-> "", message |-> <<>>]

NextSummarize ==
    \/ generate_consolidated_summary
    \/ render_summary

SpecSummarize == InitSummarize /\ [][NextSummarize]_vars

-----------------------------------------------------------------------------
(* Properties *)

IsPrefix(a, b) == Len(a) <= Len(b) /\ SubSeq(b, 1, Len(a)) = a

HasEvent(ev, i) == \E p \in DOMAIN log : log[p].ev = ev /\ log[p].i = i

\* the steps of the log, without what they read or displayed and without the
\* one-line notices
IsStep(e) == e.ev # "print"
Steps == LET L == SelectSeq(log, IsStep)
         IN  [p \in DOMAIN L |-> <<L[p].ev, L[p].i>>]

\* the steps of a run over n articles, in the order the orchestrator takes
StepsOfArticle(i) ==
    << <<"render_title", i>>, <<"extract", i>>, <<"analyze", i>>,
       <<"render", i>>, <<"collect", i>> >>
RECURSIVE StepsOfArticles(_)
StepsOfArticles(n) ==
    IF n = 0 THEN <<>> ELSE StepsOfArticles(n - 1) \o StepsOfArticle(n)
FixedOrder(n) ==
    << <<"choose_language", 0>>, <<"choose_backend", 0>>, <<"choose_model", 0>>,
       <<"fetch", 0>> >>
    \o (IF n = 0 THEN <<>>
        ELSE StepsOfArticles(n) \o << <<"summarize", 0>>, <<"render_summary", 0>> >>)

\* C1: the steps of every run are a prefix of the fixed order: language
\* prompt, backend and model prompt, feed fetch, then for each article in feed
\* order title, extract, analyze, render, collect, then one aggregation and
\* its render. An article's backend call is issued only once that article's
\* extraction is done, and the aggregation call only once the last article's
\* analysis is collected.
C1_FixedOrder ==
    /\ IsPrefix(Steps, FixedOrder(Len(articles)))
    /\ \A r \in DOMAIN requests :
          IF requests[r].fn = "generate_consolidated_summary"
          THEN /\ HasEvent("collect", Len(articles))
               /\ r = Len(requests)
          ELSE HasEvent("extract", requests[r].article)

C1_Witness ==
    /\ pc = "done"
    /\ Len(articles) = 2
    /\ Len(requests) = 3
    /\ HasEvent("render_summary", 0)

\* get_articles_published_today returned its list
FetchReturned == response.status_code = 200 /\ response.parses

NoItemToday ==
    \A k \in DOMAIN response.items :
        date(response.items[k].published) # date(now)

\* C3: when the feed response holds no item dated today, the fetch returns the
\* empty sequence without raising, the run ends with status 0 right after the
\* no-articles notice, and no extraction, no backend call and no aggregation
\* is made.
C3_NoArticles ==
    (FetchReturned /\ NoItemToday) =>
        /\ articles = <<>>
        /\ traceback.raised_in = ""
        /\ pc \in {"check", "done"}
        /\ requests = <<>>
        /\ \A p \in DOMAIN log :
              log[p].ev \in {"choose_language", "choose_backend",
                             "choose_model", "fetch", "print"}
        /\ pc = "done" =>
              /\ exit_code = 0
              /\ log[Len(log)] = Event("print", 0, no_articles_message)

C3_Witness ==
    /\ FetchReturned
    /\ Len(response.items) = MaxItems
    /\ NoItemToday
    /\ pc = "done"
    /\ exit_code = 0


Fetched == response.status_code # 0
RaisedBy(fn) == pc = "raised" /\ traceback.raised_in = fn
NothingAnalysed ==
    /\ requests = <<>>
    /\ \A p \in DOMAIN log :
          log[p].ev \notin {"extract", "analyze", "collect", "summarize"}

\* one of the two errors of lines 158-162 ended the run
StatusErrorRaised ==
    /\ RaisedBy("get_articles_published_today")
    /\ traceback.message \in {unauthorized_message, failed_to_fetch(response.text)}

\* what holds of every fetch under the claim as stated and as amended
FatalFetchStopsRun ==
    /\ response.status_code = 401 =>
          /\ RaisedBy("get_articles_published_today")
          /\ traceback.message = unauthorized_message
    /\ traceback.message = unauthorized_message =>
          response.status_code = 401
    /\ RaisedBy("get_articles_published_today") =>
          /\ NothingAnalysed
          /\ proc = "exited"
          /\ exit_code = 1

\* C4 as stated: every non-2xx status but 401 raises the fetch error with the
\* raw body, and no 2xx status raises either error.
C4_Original ==
    Fetched =>
        /\ FatalFetchStopsRun
        /\ (response.status_code \notin 200..299 /\ response.status_code # 401) =>
              /\ RaisedBy("get_articles_published_today")
              /\ traceback.message = failed_to_fetch(response.text)
        /\ response.status_code \in 200..299 => ~StatusErrorRaised

\* C4, amended: a 401 response raises the authentication error, whose message
\* no other status produces; every other status but 200, the 2xx ones
\* included, raises the fetch error carrying the raw response body; a 200
\* response raises neither; after either error the process ends with status 1
\* with no article analysed and no aggregation call issued.
C4_StatusErrors ==
    Fetched =>
        /\ FatalFetchStopsRun
        /\ response.status_code \notin {200, 401} =>
              /\ RaisedBy("get_articles_published_today")
              /\ traceback.message = failed_to_fetch(response.text)
        /\ response.status_code = 200 => ~StatusErrorRaised

C4_Witness ==
    /\ response.status_code = 401
    /\ RaisedBy("get_articles_published_today")
    /\ exit_code = 1

\* the positions of the feed's items that are dated today
TodayPositions ==
    {k \in DOMAIN response.items :
        date(response.items[k].published) = date(now)}
\* the j-th of them, counting from 1
NthToday(j) ==
    CHOOSE k \in TodayPositions :
        Cardinality({m \in TodayPositions : m <= k}) = j

\* C5: the fetch returns exactly the items whose published calendar date is
\* the calendar date of the run, in feed order, each with its title, first
\* alternate link and timestamp; an item of 23:59:59 yesterday is left out and
\* one of 00:00:00 today is kept, however long ago that was.
C5_TodayOnly ==
    FetchReturned =>
        /\ Len(articles) = Cardinality(TodayPositions)
        /\ \A j \in DOMAIN articles :
              LET entry == response.items[NthToday(j)]
              IN  articles[j] = [title |-> entry.title,
                                 url |-> entry.alternate[1].href,
                                 timestamp |-> entry.published]
        /\ \A j \in DOMAIN articles : articles[j].timestamp # Midnight - 1
        /\ \A k \in DOMAIN response.items :
              response.items[k].published = Midnight =>
                  \E j \in DOMAIN articles : articles[j].timestamp = Midnight

C5_Witness ==
    /\ FetchReturned
    /\ now = Midnight + SecondsPerDay - 1
    /\ Len(response.items) = 2
    /\ response.items[1].published = Midnight - 1
    /\ response.items[2].published = Midnight
    /\ Len(articles) = 1
    /\ articles[1].timestamp = Midnight


\* parts put together with a blank line between neighbours
BlankLineJoined(parts) ==
    LET upto[k \in 0..Len(parts)] ==
            IF k = 0 THEN <<>>
            ELSE IF k = 1 THEN parts[1]
            ELSE upto[k - 1] \o <<"\n", "\n">> \o parts[k]
    IN  upto[Len(parts)]

\* the text of the results that an aggregation request carries
AggregationInput(r) ==
    IF r.to = "openai" THEN r.user
    ELSE SubSeq(r.prompt, Len(get_summary_prompt) + 3, Len(r.prompt))

\* the articles whose extraction yielded no text: None, or the empty text
NoText(e) == e.ev = "extract" /\ (e.text.isNone \/ e.text.text = <<>>)

\* C6: for either backend, an article whose extraction yields no text gets no
\* backend call; its analysis is the skip placeholder with its title; that
\* placeholder is what is displayed and collected at the article's position
\* in feed order, and the aggregation input carries it there unchanged.
C6_SkipPlaceholder ==
    \A p \in DOMAIN log :
        NoText(log[p]) =>
            LET i == log[p].i
                placeholder ==
                    <<"**Skipping article:** *">> \o articles[i].title
                    \o <<"* (Could not extract content).">>
            IN  /\ \A r \in DOMAIN requests : requests[r].article # i
                /\ \A q \in DOMAIN log :
                      (log[q].i = i /\ log[q].ev \in {"analyze", "render", "collect"})
                          => log[q].text = placeholder
                /\ Len(articles_analysis) >= i => articles_analysis[i] = placeholder
                /\ \A r \in DOMAIN requests :
                      requests[r].fn = "generate_consolidated_summary" =>
                          /\ Len(articles_analysis) = Len(articles)
                          /\ AggregationInput(requests[r])
                                = BlankLineJoined(articles_analysis)

C6_Witness ==
    /\ Len(articles) = 2
    /\ \E p \in DOMAIN log : NoText(log[p]) /\ log[p].i = 2 /\ log[p].text = Some(<<>>)
    /\ \E r \in DOMAIN requests :
          /\ requests[r].fn = "generate_consolidated_summary"
          /\ requests[r].to = "ollama"
    /\ Len(requests) = 2

IsStripOf(line, t) ==
    /\ t = <<>> \/ (~IsSpace(t[1]) /\ ~IsSpace(t[Len(t)]))
    /\ \E a, b \in 0..Len(line) :
          /\ a + b <= Len(line)
          /\ t = SubSeq(line, a + 1, Len(line) - b)
          /\ \A k \in 1..a : IsSpace(line[k])
          /\ \A k \in (Len(line) - b + 1)..Len(line) : IsSpace(line[k])

FetchBegins == pc = "display_analysis"
TwoVariants == {"analyze_with_openai", "analyze_with_ollama"}

\* C10 as stated: when the fetch begins the language is a non-empty string and
\* the backend is one of the two variants.
C10_Original ==
    FetchBegins =>
        /\ selected_language # <<>>
        /\ selected_analyzer \in TwoVariants

\* C10, amended: the language prompt takes any line, strips the whitespace
\* around it and validates nothing, so the language may be empty; the backend
\* prompt accepts a line only if it is 1 or 2 once stripped and asks again
\* otherwise; hence when the fetch begins the backend is one of the two
\* variants, the one the accepted line names.
C10_PromptsValidated ==
    /\ \A p \in DOMAIN log :
          /\ log[p].ev = "choose_language" =>
                IsStripOf(log[p].text, selected_language)
          /\ log[p].ev = "choose_backend" =>
                \/ /\ IsStripOf(log[p].text, <<"1">>)
                   /\ selected_analyzer = "analyze_with_openai"
                \/ /\ IsStripOf(log[p].text, <<"2">>)
                   /\ selected_analyzer = "analyze_with_ollama"
    /\ FetchBegins => selected_analyzer \in TwoVariants

C10_Witness ==
    /\ FetchBegins
    /\ selected_language = <<>>
    /\ selected_analyzer = "analyze_with_ollama"


\* a step of the watchdog thread
WatchdogStep == wpc' # wpc \/ ram' # ram

\* C2 as stated: once the watchdog has read a utilisation at or above the
\* threshold, the very next step of the program is the end of the whole
\* process with status 1, the main flow taking no step of its own.
C2_Original ==
    [][wpc = "terminating" =>
           (proc' = "exited" /\ exit_code' = 1 /\ UNCHANGED mainVars)]_vars

\* C2, amended: a reading at or above the threshold sends the watchdog to its
\* termination call and no other reading does; whatever stage the main flow
\* is in, that call is enabled as long as the process runs, and it is the
\* watchdog's next step: it ends the whole process with status 1. The main
\* flow may still complete steps between the reading and the call, and may
\* even end the run first, but nothing changes once the process has ended. A
\* reading below the threshold leaves the process running and the main flow's
\* state as it was.
C2_WatchdogTerminates ==
    /\ [](wpc \in {"terminating", "exited"} <=> ram >= RAM_THRESHOLD)
    /\ []((wpc = "terminating" /\ proc = "running")
              => ENABLED monitor_ram_usage_exit)
    /\ [](wpc = "exited" => (proc = "exited" /\ exit_code = 1))
    /\ [][/\ (WatchdogStep /\ wpc = "terminating") =>
                (proc' = "exited" /\ exit_code' = 1 /\ UNCHANGED mainVars)
          /\ (WatchdogStep /\ wpc = "polling") =>
                UNCHANGED <<mainVars, procVars>>
          /\ proc # "running" => UNCHANGED vars]_vars

C2_Witness ==
    /\ wpc = "exited"
    /\ proc = "exited"
    /\ exit_code = 1
    /\ pc = "analyze"
    /\ ram = RAM_THRESHOLD


Returned == pc \in {"render_summary", "done"}
BackendOf(analyzer) ==
    IF analyzer = "analyze_with_openai" THEN "openai" ELSE "ollama"

\* C7: for every list of per-article results, the empty one included, the
\* aggregator issues one backend call and never a second; the call goes to
\* the backend variant selected for the per-article analysis, with the
\* session's model, and carries the results in their order with a blank line
\* between neighbours, each result verbatim; when the aggregator returns it
\* has made exactly that one call and hands back one text.
C7_OneAggregationCall ==
    /\ Len(requests) <= 1
    /\ (Returned \/ pc = "raised") => Len(requests) = 1
    /\ \A r \in DOMAIN requests :
          /\ requests[r].fn = "generate_consolidated_summary"
          /\ requests[r].to = BackendOf(selected_analyzer)
          /\ requests[r].model = selected_model
          /\ IF requests[r].to = "openai"
             THEN /\ requests[r].user = BlankLineJoined(articles_analysis)
                  /\ requests[r].system = get_summary_prompt
             ELSE requests[r].prompt =
                     get_summary_prompt \o <<"\n", "\n">>
                     \o BlankLineJoined(articles_analysis)
    /\ Returned =>
          /\ summary \in Summaries
                \cup {no_summary_response,
                      ollama_error(<<"requests.RequestException">>)}
          /\ \E p \in DOMAIN log : log[p] = Event("summarize", 0, summary)

C7_Witness ==
    /\ pc = "render_summary"
    /\ articles_analysis = <<>>
    /\ Len(requests) = 1
    /\ requests[1].to = "openai"
    /\ requests[1].user = <<>>

\* where a dollar amount starts: a dollar sign, at most one whitespace
\* character, a digit
AmountStartsAt(t, p) ==
    /\ t[p] = "$"
    /\ \/ p + 1 <= Len(t) /\ IsDigit(t[p + 1])
       \/ p + 2 <= Len(t) /\ IsSpace(t[p + 1]) /\ IsDigit(t[p + 2])
\* where the amount that starts at p ends: the digits, commas and dots that
\* follow its first digit belong to it
AmountEndsAt(t, p) ==
    LET d == IF IsDigit(t[p + 1]) THEN p + 1 ELSE p + 2
    IN  CHOOSE e \in d..Len(t) :
            /\ \A k \in d..e : IsAmountChar(t[k])
            /\ e = Len(t) \/ ~IsAmountChar(t[e + 1])
\* every dollar amount of t stands between two backticks
AmountsWrapped(t) ==
    \A p \in DOMAIN t :
        AmountStartsAt(t, p) =>
            /\ p > 1 /\ t[p - 1] = Backtick
            /\ AmountEndsAt(t, p) < Len(t)
            /\ t[AmountEndsAt(t, p) + 1] = Backtick

\* the texts displayed and collected as analyses, with their articles
Outputs ==
    {<<log[p].i, log[p].text>> : p \in {q \in DOMAIN log : log[q].ev = "render"}}
    \cup {<<i, articles_analysis[i]>> : i \in DOMAIN articles_analysis}

\* C8 as stated: every analysis displayed or collected has all its dollar
\* amounts between backticks.
C8_Original == \A o \in Outputs : AmountsWrapped(o[2])

\* the analyses that no backend reply stands behind
ReturnedAsIs(i) ==
    { <<"**Skipping article:** *">> \o articles[i].title
          \o <<"* (Could not extract content).">>,
      <<"**Error:** Failed to connect to Ollama API: ",
        "requests.RequestException">> }

\* C8, amended: on either backend, every analysis made from a backend reply
\* has all its dollar amounts between backticks in the text displayed and in
\* the text collected; the skip placeholder and the local backend's
\* transport-error text are returned as they are, so a dollar amount in the
\* article's title stays bare in the placeholder.
C8_RepliesWrapped ==
    \A o \in Outputs : o[2] \in ReturnedAsIs(o[1]) \/ AmountsWrapped(o[2])

C8_Witness ==
    /\ articles_analysis = << <<Backtick, "$", " ", "5", Backtick>> >>
    /\ selected_analyzer = "analyze_with_ollama"
    /\ Len(requests) = 1

=============================================================================
